---- MODULE Spec2Model ----
(***************************************************************************)
(* Model of the image-protection service worker (src/unnamed/part_000).    *)
(*                                                                         *)
(* Strings are modelled as sequences of tokens (one-character strings for  *)
(* token payloads, path/host fragments for URLs, referers and user         *)
(* agents), cut so that every substring the code searches for lies on      *)
(* token boundaries; startsWith / endsWith / includes are then computed    *)
(* as the corresponding sequence operations.                               *)
(***************************************************************************)
EXTENDS Integers, Sequences, FiniteSets, TLC

VARIABLES
    phase,      \* lifecycle of the worker: "parsed", "installed", "active", "redundant"
    caches,     \* CacheStorage: sequence (creation order) of [name, store]
    handlers,   \* one record per fetch or sync event being handled (or last handled)
    writes,     \* detached caches.open(..).then(cache.put) not yet settled
    now,        \* Date.now()
    location,   \* self.location
    arg,        \* input of the pure function under check
    ret         \* its result: {} before the call, {value} after

vars == <<phase, caches, handlers, writes, now, location, arg, ret>>

----------------------------------------------------------------------------
(* String operations *)

StartsWith(s, p) == Len(p) <= Len(s) /\ SubSeq(s, 1, Len(p)) = p

EndsWith(s, p) == Len(p) <= Len(s) /\ SubSeq(s, Len(s) - Len(p) + 1, Len(s)) = p

Includes(s, p) == \E i \in 0..(Len(s) - Len(p)) : SubSeq(s, i + 1, i + Len(p)) = p

\* String.prototype.split(sep) for a one-character separator
RECURSIVE split(_, _)
split(s, sep) ==
    IF \A i \in 1..Len(s) : s[i] # sep
    THEN <<s>>
    ELSE LET i == CHOOSE k \in 1..Len(s) : s[k] = sep /\ \A j \in 1..(k - 1) : s[j] # sep
         IN  <<SubSeq(s, 1, i - 1)>> \o split(SubSeq(s, i + 1, Len(s)), sep)

DigitVal ==
    ("0" :> 0) @@ ("1" :> 1) @@ ("2" :> 2) @@ ("3" :> 3) @@ ("4" :> 4) @@
    ("5" :> 5) @@ ("6" :> 6) @@ ("7" :> 7) @@ ("8" :> 8) @@ ("9" :> 9)

DigitChar == <<"0", "1", "2", "3", "4", "5", "6", "7", "8", "9">>

IsDigit(c) == c \in DOMAIN DigitVal

\* Number.prototype.toString() of a non-negative integer
RECURSIVE NumToString(_)
NumToString(n) ==
    IF n < 10 THEN <<DigitChar[n + 1]>>
    ELSE NumToString(n \div 10) \o <<DigitChar[(n % 10) + 1]>>

RECURSIVE SkipSpaces(_)
SkipSpaces(s) == IF s # <<>> /\ Head(s) = " " THEN SkipSpaces(Tail(s)) ELSE s

RECURSIVE ParseDigits(_, _, _)
ParseDigits(s, acc, seen) ==
    IF s # <<>> /\ IsDigit(Head(s))
    THEN ParseDigits(Tail(s), acc * 10 + DigitVal[Head(s)], TRUE)
    ELSE IF seen THEN <<acc>> ELSE <<>>

\* parseInt(s): leading whitespace skipped, optional sign, then the longest
\* prefix of decimal digits; <<>> is NaN, <<n>> the number n.
parseInt(s) ==
    LET t == SkipSpaces(s) IN
    IF t # <<>> /\ Head(t) = "+" THEN ParseDigits(Tail(t), 0, FALSE)
    ELSE IF t # <<>> /\ Head(t) = "-"
         THEN LET m == ParseDigits(Tail(t), 0, FALSE)
              IN  IF m = <<>> THEN <<>> ELSE <<0 - m[1]>>
         ELSE ParseDigits(t, 0, FALSE)

----------------------------------------------------------------------------
(* Session tokens and validateToken *)

\* A header value that is absent (headers.get returns null)
NullToken == [enc |-> "null", text |-> <<>>]

\* A token is identified by what atob makes of it: enc = "b64" decodes to
\* text, enc = "bad" makes atob throw.
Falsy(token) == token.enc = "null" \/ (token.enc = "b64" /\ token.text = <<>>)

Decodable(token) == token.enc = "b64"

atob(token) == token.text

maxAge == 300000

ClockSkew == 1000

validateToken_inclusiveLower(token) ==
    IF Falsy(token) THEN FALSE
    ELSE IF ~Decodable(token) THEN FALSE
    ELSE LET decoded == atob(token)
             parts == split(decoded, "-")
         IN  IF Len(parts) < 2 THEN FALSE
             ELSE LET timestamp == parseInt(parts[1])
                  IN  /\ timestamp # <<>>
                      /\ now - timestamp[1] <= maxAge
                      /\ timestamp[1] <= now + ClockSkew

validateToken(token) ==
    IF Falsy(token) THEN FALSE
    ELSE IF ~Decodable(token) THEN FALSE
    ELSE LET decoded == atob(token)
             parts == split(decoded, "-")
         IN  IF Len(parts) < 2 THEN FALSE
             ELSE LET timestamp == parseInt(parts[1])
                  IN  /\ timestamp # <<>>
                      /\ now - timestamp[1] < maxAge
                      /\ timestamp[1] <= now + ClockSkew

----------------------------------------------------------------------------
(* Inputs of the token validator *)

BaseNow == 700000

Nows == {BaseNow, BaseNow + 1}

TokenTimes ==
    {BaseNow - maxAge - 1, BaseNow - maxAge, BaseNow - maxAge + 1, BaseNow,
     BaseNow + ClockSkew, BaseNow + ClockSkew + 1, BaseNow + ClockSkew + 2}

B64(text) == [enc |-> "b64", text |-> text]

\* "<ts>-n": what a legitimate client mints
MintToken(ts) == B64(NumToString(ts) \o <<"-", "n">>)

TokenPayloads ==
    UNION {
        { NumToString(ts) \o <<"-", "n">>,                 \* well formed
          NumToString(ts) \o <<"-", "n", "-", "n">>,       \* three fields
          NumToString(ts),                                   \* one field
          NumToString(ts) \o <<"a", "-", "n">>,            \* digits then a letter
          <<" ">> \o NumToString(ts) \o <<"-", "n">>,      \* leading blank
          <<"a">> \o NumToString(ts) \o <<"-", "n">>,      \* letter first
          <<"-">> \o NumToString(ts) \o <<"-", "n">> }     \* empty first field
        : ts \in TokenTimes }
    \cup { <<>>, <<"a", "-", "n">>, <<"-">> }

Tokens ==
    { B64(p) : p \in TokenPayloads } \cup { NullToken, [enc |-> "bad", text |-> <<>>] }

----------------------------------------------------------------------------
(* Configuration *)

CACHE_NAME == "image-protection-v11"

STATIC_CACHE == "static-v11"

IMAGES_CACHE == "images-v11"

STATIC_ASSETS ==
    { <<"/">>,
      <<"/", "index.html">>,
      <<"/", "manifest.json">>,
      <<"/", "favicon.svg">>,
      <<"/", "apple-touch-icon.png">> }

ALLOWED_ORIGINS ==
    { <<"https://", "avinashbhorphotography.github.io">>,
      <<"https://", "www.abphotostudio.in">>,
      <<"http://", "localhost", ":8080">>,
      <<"http://", "localhost", ":5173">> }

ImagesSegment == <<"/", "images", "/">>

ApiSegment == <<"/", "api", "/">>

BotSignatures ==
    {"Wget", "curl", "Python", "bot", "spider", "crawler", "Postman", "HTTPie"}

----------------------------------------------------------------------------
(* Serving hosts (self.location) *)

ProdLocation ==
    [origin |-> <<"https://", "www.abphotostudio.in">>,
     hostname |-> <<"www.abphotostudio.in">>]

LocalLocation ==
    [origin |-> <<"http://", "localhost", ":8080">>, hostname |-> <<"localhost">>]

LoopbackLocation ==
    [origin |-> <<"http://", "127.0.0.1", ":8080">>, hostname |-> <<"127.0.0.1">>]

DevLocation ==
    [origin |-> <<"https://", "dev.", "localhost">>, hostname |-> <<"dev.", "localhost">>]

Locations == {ProdLocation, LocalLocation, LoopbackLocation, DevLocation}

----------------------------------------------------------------------------
(* Requests *)

\* request.url: the serialised URL
href(u) == u.origin \o u.path \o u.query

\* new URL(url).pathname
pathname(u) == u.path

SiteURL(path) == [origin |-> location.origin, path |-> path, query |-> <<>>]

UrlOn(loc, path, query) == [origin |-> loc.origin, path |-> path, query |-> query]

PlaceholderPath == <<"/", "images", "/", "placeholder.jpeg">>

Methods == {"GET", "POST"}

\* (destination, mode) pairs a browser produces: a top-level navigation has
\* destination "document"; an <img> has destination "image", mode "no-cors";
\* fetch() has destination "" and mode "cors".
Contexts ==
    { [destination |-> "image", mode |-> "no-cors"],
      [destination |-> "", mode |-> "cors"],
      [destination |-> "document", mode |-> "navigate"] }

AuthValues == {"null", "protected", "other"}

FlagValues == {"null", "true", "false"}

NoReferer == <<>>

Referers(loc) ==
    { NoReferer,
      loc.origin \o <<"/", "gallery">>,
      <<"https://", "avinashbhorphotography.github.io">> \o <<"/", "me", "/">>,
      <<"https://", "www.abphotostudio.in">> \o <<".evil.example">> \o <<"/">>,
      <<"https://", "evil.example">> \o <<"/", "?", "localhost">>,
      <<"https://", "evil.example">> \o <<"/", "gallery">> }

UserAgents ==
    { <<>>,
      <<"Mozilla/5.0">>,
      <<"curl", "/8.4.0">>,
      <<"Mozilla/5.0 (compatible; Google", "bot", "/2.1)">>,
      <<"python-requests/2.31">> }

MakeRequest(u, method, ctx, auth, token, flag, referer, ua) ==
    [url |-> u, method |-> method,
     destination |-> ctx.destination, mode |-> ctx.mode,
     auth |-> auth, token |-> token, flag |-> flag,
     referer |-> referer, ua |-> ua]

NoRequest ==
    MakeRequest([origin |-> <<>>, path |-> <<>>, query |-> <<>>], "GET",
                [destination |-> "", mode |-> ""], "null", NullToken, "null",
                NoReferer, <<>>)

----------------------------------------------------------------------------
(* Request classification: the guards of the fetch listener *)

isStaticAsset(request) == \E asset \in STATIC_ASSETS : EndsWith(href(request.url), asset)

isImageRequest(request) ==
    request.destination = "image" \/ Includes(href(request.url), ImagesSegment)

isDynamicRequest(request) ==
    Includes(href(request.url), ApiSegment) \/ request.method # "GET"

classify_imageFirst(request) ==
    IF isImageRequest(request) THEN "ProtectedImage"
    ELSE IF isStaticAsset(request) THEN "StaticAsset"
    ELSE IF isDynamicRequest(request) THEN "Dynamic"
    ELSE "Generic"

classify(request) ==
    IF isStaticAsset(request) THEN "StaticAsset"
    ELSE IF isImageRequest(request) THEN "ProtectedImage"
    ELSE IF isDynamicRequest(request) THEN "Dynamic"
    ELSE "Generic"

\* isProtectedImage(url), local part: the path begins with /images/
isLocalProtected(u) == StartsWith(pathname(u), ImagesSegment)

----------------------------------------------------------------------------
(* Access policy: isAuthenticated *)

isLocalhost ==
    \/ location.hostname = <<"localhost">>
    \/ location.hostname = <<"127.0.0.1">>
    \/ Includes(location.hostname, <<"localhost">>)

isDownloadAttempt(userAgent) == \E sig \in BotSignatures : Includes(userAgent, <<sig>>)

hasValidReferer_anyReferer(request) == request.referer # NoReferer

hasValidReferer(request) ==
    /\ request.referer # NoReferer
    /\ \/ StartsWith(request.referer, location.origin)
       \/ Includes(request.referer, <<"localhost">>)
       \/ \E origin \in ALLOWED_ORIGINS : StartsWith(request.referer, origin)

hasValidAuth(request) ==
    /\ request.auth = "protected"
    /\ ~Falsy(request.token)
    /\ validateToken(request.token)
    /\ request.flag = "true"

isAuthenticated_botCheckLast(request) ==
    IF isLocalhost THEN TRUE
    ELSE IF Includes(href(request.url), ImagesSegment)
         THEN IF request.destination = "image" /\ hasValidReferer(request) THEN TRUE
              ELSE IF hasValidAuth(request) /\ hasValidReferer(request) THEN TRUE
              ELSE FALSE
         ELSE ~isDownloadAttempt(request.ua)

isAuthenticated(request) ==
    IF isLocalhost THEN TRUE
    ELSE IF isDownloadAttempt(request.ua) THEN FALSE
    ELSE IF Includes(href(request.url), ImagesSegment)
         THEN IF request.destination = "image" /\ hasValidReferer(request) THEN TRUE
              ELSE IF hasValidAuth(request) /\ hasValidReferer(request) THEN TRUE
              ELSE IF request.mode = "navigate" THEN FALSE
              ELSE FALSE
         ELSE TRUE

\* the condition on which the image branch answers with the HTML denial page
isDirectNavigation(request) ==
    request.mode = "navigate" \/ (request.flag \in {"null", ""} /\ request.destination = "")

----------------------------------------------------------------------------
(* Responses *)

\* what fetch(request) resolves to
NetResponse(request, status, ver) ==
    [src |-> "network", url |-> href(request.url), status |-> status,
     type |-> IF request.url.origin = location.origin THEN "basic" ELSE "cors",
     ctype |-> "upstream", reason |-> "", body |-> "upstream", ver |-> ver]

Synthesized(status, ctype, reason, body) ==
    [src |-> "worker", url |-> <<>>, status |-> status, type |-> "default",
     ctype |-> ctype, reason |-> reason, body |-> body, ver |-> 0]

DirectNavigationResponse ==
    Synthesized(403, "text/html", "Direct navigation blocked", "Access Denied page")

UnauthorizedResponse ==
    Synthesized(403, "text/plain", "Unauthorized access attempt detected",
                "403 Forbidden - Image Protection Active")

ImageNotFoundResponse == Synthesized(404, "", "", "")

NetworkUnavailableResponse ==
    Synthesized(503, "application/json", "", "{\"error\":\"Network unavailable\"}")

OfflineResponse ==
    Synthesized(503, "text/plain", "", "Offline - Content not available")

\* the value a promise resolves to when there is no match
undefined ==
    [src |-> "undefined", url |-> <<>>, status |-> 0, type |-> "", ctype |-> "",
     reason |-> "", body |-> "", ver |-> 0]

\* what the page gets when respondWith is given a rejected promise or a
\* promise that resolves to something that is no Response: a network error
NetworkError ==
    [src |-> "fault", url |-> <<>>, status |-> 0, type |-> "error", ctype |-> "",
     reason |-> "", body |-> "", ver |-> 0]

ok(response) == response.status >= 200 /\ response.status <= 299

IsResponse(r) == r.src \in {"network", "worker"}

----------------------------------------------------------------------------
(* CacheStorage *)

EmptyStore == [k \in {} |-> undefined]

HasCache(cs, name) == \E i \in 1..Len(cs) : cs[i].name = name

\* caches.open(name): the cache is created, last in order, when it is missing
open(cs, name) ==
    IF HasCache(cs, name) THEN cs ELSE Append(cs, [name |-> name, store |-> EmptyStore])

StorePut(store, key, response) ==
    [k \in DOMAIN store \cup {key} |-> IF k = key THEN response ELSE store[k]]

\* caches.open(name).then(cache => cache.put(request, response))
put(cs, name, key, response) ==
    LET c == open(cs, name)
        i == CHOOSE j \in 1..Len(c) : c[j].name = name
    IN  [c EXCEPT ![i].store = StorePut(c[i].store, key, response)]

\* caches.match(request): the first cache, in creation order, that holds the
\* request's URL; only GET requests match
match(cs, request) ==
    LET hits == {i \in 1..Len(cs) : href(request.url) \in DOMAIN cs[i].store} IN
    IF request.method # "GET" \/ hits = {} THEN undefined
    ELSE LET i == CHOOSE j \in hits : \A k \in hits : j <= k
         IN  cs[i].store[href(request.url)]

RECURSIVE SelectCaches(_, _)
SelectCaches(cs, keep) ==
    IF cs = <<>> THEN <<>>
    ELSE IF Head(cs).name \in keep THEN <<Head(cs)>> \o SelectCaches(Tail(cs), keep)
    ELSE SelectCaches(Tail(cs), keep)

Stored(cs, name) ==
    IF HasCache(cs, name)
    THEN (CHOOSE c \in {cs[i] : i \in 1..Len(cs)} : c.name = name).store
    ELSE EmptyStore

GetRequest(u) ==
    MakeRequest(u, "GET", [destination |-> "", mode |-> "cors"], "null", NullToken,
                "null", NoReferer, <<>>)

PlaceholderRequest == GetRequest(SiteURL(PlaceholderPath))

----------------------------------------------------------------------------
(* Bounds and the requests of the state machine *)

MaxPending == 2

NetStatuses == {200, 404}

\* the bodies the network serves for a URL and a status
Bodies == {1}

PlainHeaders ==
    [auth |-> "null", token |-> NullToken, flag |-> "null", referer |-> NoReferer,
     ua |-> <<"Mozilla/5.0">>]

\* an <img> on a page of the site
PageHeaders(loc) == [PlainHeaders EXCEPT !.referer = loc.origin \o <<"/", "gallery">>]

\* the application's fetch with credentials, the token minted at time t
AuthHeaders(loc, t) ==
    [PageHeaders(loc) EXCEPT !.auth = "protected", !.token = MintToken(t), !.flag = "true"]

BotHeaders(loc, t) == [AuthHeaders(loc, t) EXCEPT !.ua = <<"curl", "/8.4.0">>]

FlagHeaders == [PlainHeaders EXCEPT !.flag = "true"]

ImgContext == [destination |-> "image", mode |-> "no-cors"]

FetchContext == [destination |-> "", mode |-> "cors"]

NavContext == [destination |-> "document", mode |-> "navigate"]

WithHeaders(u, method, ctx, hs) ==
    { MakeRequest(u, method, ctx, h.auth, h.token, h.flag, h.referer, h.ua) : h \in hs }

ImageA(loc) == UrlOn(loc, <<"/", "images", "/", "a.jpg">>, <<>>)

ImagesDir(loc) == UrlOn(loc, <<"/", "images", "/">>, <<>>)

ExternalPhoto ==
    [origin |-> <<"https://", "images.unsplash.com">>, path |-> <<"/", "photo.jpg">>,
     query |-> <<>>]

\* the requests the pages of the site, its visitors and download tools make
\* while the worker on loc is active, at time t
RequestsAt(loc, t) ==
    LET plain == PlainHeaders
        page == PageHeaders(loc)
        auth == AuthHeaders(loc, t)
        expired == AuthHeaders(loc, t - maxAge)
        bot == BotHeaders(loc, t)
        contact == UrlOn(loc, <<"/", "api", "/", "contact">>, <<>>)
    IN  WithHeaders(ImageA(loc), "GET", ImgContext, {plain, page, bot})
        \cup WithHeaders(ImageA(loc), "GET", FetchContext, {plain, auth, expired, FlagHeaders})
        \cup WithHeaders(ImageA(loc), "GET", NavContext, {plain})
        \cup WithHeaders(ImageA(loc), "POST", FetchContext, {auth})
        \cup WithHeaders(UrlOn(loc, PlaceholderPath, <<>>), "GET", ImgContext, {page})
        \cup WithHeaders(ExternalPhoto, "GET", FetchContext, {plain})
        \cup WithHeaders(UrlOn(loc, <<"/", "index.html">>, <<>>), "GET", NavContext, {plain})
        \cup WithHeaders(ImagesDir(loc), "GET", NavContext, {plain})
        \cup WithHeaders(contact, "POST", FetchContext, {plain})
        \cup WithHeaders(contact, "GET", FetchContext, {plain})
        \cup WithHeaders(UrlOn(loc, <<"/", "about">>, <<>>), "GET", NavContext, {plain})

ProdRequests == RequestsAt(ProdLocation, BaseNow)

LocalRequests == RequestsAt(LocalLocation, BaseNow)

FetchRequests == IF location = ProdLocation THEN ProdRequests ELSE LocalRequests

----------------------------------------------------------------------------
(* State machine *)

IdleHandler ==
    [pc |-> "idle", request |-> NoRequest, class |-> "", hit |-> undefined,
     response |-> undefined, lookups |-> 0, policyCalls |-> 0, fetches |-> 0,
     puts |-> 0]

\* a cache left behind by the previous generation of the worker
OldGeneration(loc) ==
    [name |-> "static-v10",
     store |-> (href(UrlOn(loc, <<"/">>, <<>>)) :>
                  [src |-> "network", url |-> href(UrlOn(loc, <<"/">>, <<>>)),
                   status |-> 200, type |-> "basic", ctype |-> "upstream",
                   reason |-> "", body |-> "upstream", ver |-> 0])]

Init ==
    /\ location \in {ProdLocation, LocalLocation}
    /\ now = BaseNow
    /\ phase = "parsed"
    /\ caches \in {<<>>, <<OldGeneration(location)>>}
    /\ handlers = <<IdleHandler>>
    /\ writes = {}
    /\ arg = NoRequest
    /\ ret = {}

Slots == DOMAIN handlers

Finish(s, response) ==
    handlers' = [handlers EXCEPT ![s].pc = "done", ![s].response = response]

\* install listener: cache.addAll(STATIC_ASSETS) stores a successful response
\* for every asset
RECURSIVE AddAll(_, _)
AddAll(cs, assets) ==
    IF assets = {} THEN cs
    ELSE LET a == CHOOSE x \in assets : TRUE
             r == GetRequest(SiteURL(a))
         IN  AddAll(put(cs, STATIC_CACHE, href(r.url), NetResponse(r, 200, 1)),
                    assets \ {a})

Install ==
    /\ phase = "parsed"
    /\ caches' = AddAll(open(caches, STATIC_CACHE), STATIC_ASSETS)
    /\ phase' = "installed"
    /\ UNCHANGED <<handlers, writes, now, location, arg, ret>>

\* addAll rejects when an asset cannot be fetched or is not ok: the
\* installation fails and the worker is discarded
InstallFail ==
    /\ phase = "parsed"
    /\ caches' = open(caches, STATIC_CACHE)
    /\ phase' = "redundant"
    /\ UNCHANGED <<handlers, writes, now, location, arg, ret>>

Activate_noCleanup ==
    /\ phase = "installed"
    /\ caches' = caches
    /\ phase' = "active"
    /\ UNCHANGED <<handlers, writes, now, location, arg, ret>>

\* activate listener: every cache that is not one of the three is deleted
Activate ==
    /\ phase = "installed"
    /\ caches' = SelectCaches(caches, {CACHE_NAME, STATIC_CACHE, IMAGES_CACHE})
    /\ phase' = "active"
    /\ UNCHANGED <<handlers, writes, now, location, arg, ret>>

\* fetch listener, synchronous part: the guards, and the first asynchronous
\* call of the branch taken
FetchEvent(s, request) ==
    /\ phase = "active"
    /\ handlers[s].pc \in {"idle", "done"}
    /\ Cardinality(writes) < MaxPending
    /\ LET class == classify(request)
           h == [IdleHandler EXCEPT !.request = request, !.class = class]
       IN  handlers' =
             [handlers EXCEPT ![s] =
                IF class \in {"StaticAsset", "ProtectedImage"}
                THEN [h EXCEPT !.pc = "match", !.lookups = 1]
                ELSE [h EXCEPT !.pc = "fetch", !.fetches = 1]]
    /\ UNCHANGED <<phase, caches, writes, now, location, arg, ret>>

\* static branch, the callback of caches.match(request):
\* response || fetch(request).then(..)
StaticCallback(h, response) ==
    IF response # undefined
    THEN [h EXCEPT !.pc = "done", !.hit = response, !.response = response]
    ELSE [h EXCEPT !.pc = "fetch", !.fetches = 1]

StaticLookup(s) ==
    /\ handlers[s].pc = "match"
    /\ handlers[s].class = "StaticAsset"
    /\ handlers' = [handlers EXCEPT
                      ![s] = StaticCallback(@, match(caches, handlers[s].request))]
    /\ UNCHANGED <<phase, caches, writes, now, location, arg, ret>>

ImageCallback_policyFirst(h, response) ==
    IF ~isAuthenticated(h.request)
    THEN [h EXCEPT !.pc = "done", !.policyCalls = 1, !.response = UnauthorizedResponse]
    ELSE IF response # undefined
    THEN [h EXCEPT !.pc = "done", !.policyCalls = 1, !.hit = response,
                   !.response = response]
    ELSE [h EXCEPT !.pc = "fetch", !.policyCalls = 1, !.fetches = 1]

ImageCallback_noNavigationCheck(h, response) ==
    IF response # undefined
    THEN [h EXCEPT !.pc = "done", !.hit = response, !.response = response]
    ELSE IF ~isAuthenticated(h.request)
    THEN [h EXCEPT !.pc = "done", !.policyCalls = 1, !.response = UnauthorizedResponse]
    ELSE [h EXCEPT !.pc = "fetch", !.policyCalls = 1, !.fetches = 1]

ImageCallback_noPolicy(h, response) ==
    IF response # undefined
    THEN [h EXCEPT !.pc = "done", !.hit = response, !.response = response]
    ELSE IF isDirectNavigation(h.request) /\ Includes(href(h.request.url), ImagesSegment)
    THEN [h EXCEPT !.pc = "done", !.response = DirectNavigationResponse]
    ELSE [h EXCEPT !.pc = "fetch", !.fetches = 1]

\* image branch, the callback of caches.match(request), up to the call of fetch
ImageCallback(h, response) ==
    IF response # undefined
    THEN [h EXCEPT !.pc = "done", !.hit = response, !.response = response]
    ELSE IF isDirectNavigation(h.request) /\ Includes(href(h.request.url), ImagesSegment)
    THEN [h EXCEPT !.pc = "done", !.response = DirectNavigationResponse]
    ELSE IF ~isAuthenticated(h.request)
    THEN [h EXCEPT !.pc = "done", !.policyCalls = 1, !.response = UnauthorizedResponse]
    ELSE [h EXCEPT !.pc = "fetch", !.policyCalls = 1, !.fetches = 1]

ImageLookup(s) ==
    /\ handlers[s].pc = "match"
    /\ handlers[s].class = "ProtectedImage"
    /\ handlers' = [handlers EXCEPT
                      ![s] = ImageCallback(@, match(caches, handlers[s].request))]
    /\ UNCHANGED <<phase, caches, writes, now, location, arg, ret>>

Persist_everySuccess(class, response) ==
    IF class = "StaticAsset" \/ ok(response) THEN
        IF class = "ProtectedImage" THEN {IMAGES_CACHE} ELSE {STATIC_CACHE}
    ELSE {}

Persist_everyImage(class, response) ==
    CASE class = "StaticAsset" -> {STATIC_CACHE}
      [] class = "ProtectedImage" -> {IMAGES_CACHE}
      [] class = "Dynamic" -> {}
      [] class = "Generic" ->
           IF ok(response) /\ response.type = "basic" THEN {STATIC_CACHE} ELSE {}

Persist_staticOnlyOk(class, response) ==
    CASE class = "StaticAsset" -> IF ok(response) THEN {STATIC_CACHE} ELSE {}
      [] class = "ProtectedImage" -> IF ok(response) THEN {IMAGES_CACHE} ELSE {}
      [] class = "Dynamic" -> {}
      [] class = "Generic" ->
           IF ok(response) /\ response.type = "basic" THEN {STATIC_CACHE} ELSE {}

\* the caches the then-callback of fetch(request) puts a clone of the response into
Persist(class, response) ==
    CASE class = "StaticAsset" -> {STATIC_CACHE}
      [] class = "ProtectedImage" -> IF ok(response) THEN {IMAGES_CACHE} ELSE {}
      [] class = "Dynamic" -> {}
      [] class = "Generic" ->
           IF ok(response) /\ response.type = "basic" THEN {STATIC_CACHE} ELSE {}

FetchResolve_singleFlight(s, status, ver) ==
    /\ handlers[s].pc = "fetch"
    /\ LET response == NetResponse(handlers[s].request, status, ver)
           persist == Persist(handlers[s].class, response)
           waiting == {t \in Slots : /\ handlers[t].pc = "fetch"
                                     /\ handlers[t].request.url = handlers[s].request.url}
       IN  /\ handlers' = [t \in DOMAIN handlers |->
                             IF t \in waiting
                             THEN [handlers[t] EXCEPT !.pc = "done", !.response = response,
                                                      !.puts = Cardinality(persist)]
                             ELSE handlers[t]]
           /\ writes' = writes \cup
                {[cache |-> name, method |-> handlers[s].request.method,
                  key |-> href(handlers[s].request.url), response |-> response]
                 : name \in persist}
    /\ UNCHANGED <<phase, caches, now, location, arg, ret>>

\* fetch(request) resolves with a response
FetchResolve(s, status, ver) ==
    /\ handlers[s].pc = "fetch"
    /\ LET response == NetResponse(handlers[s].request, status, ver)
           persist == Persist(handlers[s].class, response)
       IN  /\ handlers' = [handlers EXCEPT ![s].pc = "done", ![s].response = response,
                                           ![s].puts = Cardinality(persist)]
           /\ writes' = writes \cup
                {[cache |-> name, method |-> handlers[s].request.method,
                  key |-> href(handlers[s].request.url), response |-> response]
                 : name \in persist}
    /\ UNCHANGED <<phase, caches, now, location, arg, ret>>

\* the rejection handler of the branch, or none: the rejection reaches respondWith
OnReject(h) ==
    CASE h.class = "StaticAsset" -> [h EXCEPT !.pc = "done", !.response = NetworkError]
      [] h.class = "ProtectedImage" -> [h EXCEPT !.pc = "placeholder", !.lookups = @ + 1]
      [] h.class = "Dynamic" ->
           [h EXCEPT !.pc = "done", !.response = NetworkUnavailableResponse]
      [] h.class = "Generic" -> [h EXCEPT !.pc = "fallback", !.lookups = @ + 1]

FetchReject_cachesError(s) ==
    /\ handlers[s].pc = "fetch"
    /\ handlers' = [handlers EXCEPT ![s] = OnReject(@)]
    /\ writes' = writes \cup
         IF handlers'[s].pc = "done"
         THEN {[cache |-> STATIC_CACHE, method |-> handlers[s].request.method,
                key |-> href(handlers[s].request.url),
                response |-> handlers'[s].response]}
         ELSE {}
    /\ UNCHANGED <<phase, caches, now, location, arg, ret>>

\* fetch(request) rejects: a transport failure
FetchReject(s) ==
    /\ handlers[s].pc = "fetch"
    /\ handlers' = [handlers EXCEPT ![s] = OnReject(@)]
    /\ UNCHANGED <<phase, caches, writes, now, location, arg, ret>>

\* image branch, catch: return caches.match('/images/placeholder.jpeg') || new Response(..)
\* The left operand is a promise, which is never falsy: the handler answers
\* with whatever the promise resolves to.
PlaceholderLookup(s) ==
    /\ handlers[s].pc = "placeholder"
    /\ LET response == match(caches, PlaceholderRequest) IN
       Finish(s, IF response # undefined THEN response ELSE NetworkError)
    /\ UNCHANGED <<phase, caches, writes, now, location, arg, ret>>

\* generic branch, catch: caches.match(request).then(response => response || new Response(..))
OfflineLookup(s) ==
    /\ handlers[s].pc = "fallback"
    /\ LET response == match(caches, handlers[s].request) IN
       Finish(s, IF response # undefined THEN response ELSE OfflineResponse)
    /\ UNCHANGED <<phase, caches, writes, now, location, arg, ret>>

\* a detached cache.put settles: stored
PutResolve(w) ==
    /\ w \in writes
    /\ w.method = "GET"
    /\ caches' = put(caches, w.cache, w.key, w.response)
    /\ writes' = writes \ {w}
    /\ UNCHANGED <<phase, handlers, now, location, arg, ret>>

PutReject_propagates(w) ==
    /\ w \in writes
    /\ caches' = open(caches, w.cache)
    /\ writes' = writes \ {w}
    /\ handlers' = [s \in DOMAIN handlers |->
                      IF handlers[s].response = w.response
                      THEN [handlers[s] EXCEPT !.response = NetworkError]
                      ELSE handlers[s]]
    /\ UNCHANGED <<phase, now, location, arg, ret>>

\* a detached cache.put settles: rejected (a request that is not a GET, or a
\* failure of the store); nobody handles the rejection
PutReject(w) ==
    /\ w \in writes
    /\ caches' = open(caches, w.cache)
    /\ writes' = writes \ {w}
    /\ UNCHANGED <<phase, handlers, now, location, arg, ret>>

Next ==
    \/ Install
    \/ InstallFail
    \/ Activate
    \/ \E s \in Slots : \E request \in FetchRequests : FetchEvent(s, request)
    \/ \E s \in Slots : StaticLookup(s)
    \/ \E s \in Slots : ImageLookup(s)
    \/ \E s \in Slots : \E status \in NetStatuses : \E ver \in Bodies : FetchResolve(s, status, ver)
    \/ \E s \in Slots : FetchReject(s)
    \/ \E s \in Slots : PlaceholderLookup(s)
    \/ \E s \in Slots : OfflineLookup(s)
    \/ \E w \in writes : PutResolve(w)
    \/ \E w \in writes : PutReject(w)

Spec == Init /\ [][Next]_vars

----------------------------------------------------------------------------
(* Specifications of the pure functions *)

Quiet ==
    /\ phase = "parsed"
    /\ caches = <<>>
    /\ handlers = <<IdleHandler>>
    /\ writes = {}

InitToken ==
    /\ location = ProdLocation
    /\ now \in Nows
    /\ Quiet
    /\ arg \in Tokens
    /\ ret = {}

ValidateStep ==
    /\ ret = {}
    /\ ret' = {validateToken(arg)}
    /\ UNCHANGED <<phase, caches, handlers, writes, now, location, arg>>

SpecToken == InitToken /\ [][ValidateStep]_vars

ClassifyURLs(loc) ==
    { UrlOn(loc, <<"/">>, <<>>),
      UrlOn(loc, <<"/", "index.html">>, <<>>),
      UrlOn(loc, <<"/", "images", "/", "a.jpg">>, <<>>),
      UrlOn(loc, <<"/", "images", "/">>, <<>>),
      UrlOn(loc, <<"/", "images", "/", "index.html">>, <<>>),
      UrlOn(loc, <<"/", "gallery", "/", "images", "/", "b.jpg">>, <<>>),
      UrlOn(loc, <<"/", "api", "/", "contact">>, <<>>),
      UrlOn(loc, <<"/", "api", "/", "images", "/", "x">>, <<>>),
      UrlOn(loc, <<"/", "docs", "/", "api", "/", "intro">>, <<>>),
      UrlOn(loc, <<"/", "about">>, <<>>),
      UrlOn(loc, <<"/", "about">>, <<"?", "next=", "/", "images", "/", "a.jpg">>),
      UrlOn(loc, <<"/", "about">>, <<"?", "next=", "/", "api", "/", "x">>),
      UrlOn(loc, <<"/", "myindex.html">>, <<>>),
      ExternalPhoto }

ClassifyRequests ==
    { MakeRequest(u, m, ctx, "null", NullToken, "null", NoReferer, <<"Mozilla/5.0">>)
      : u \in ClassifyURLs(ProdLocation), m \in Methods, ctx \in Contexts }

InitClassify ==
    /\ location = ProdLocation
    /\ now = BaseNow
    /\ Quiet
    /\ arg \in ClassifyRequests
    /\ ret = {}

ClassifyStep ==
    /\ ret = {}
    /\ ret' = {classify(arg)}
    /\ UNCHANGED <<phase, caches, handlers, writes, now, location, arg>>

SpecClassify == InitClassify /\ [][ClassifyStep]_vars

PolicyRequests(loc, t) ==
    { MakeRequest(u, "GET", ctx, auth, token, flag, referer, ua)
      : u \in {ImageA(loc), UrlOn(loc, <<"/", "about">>, <<>>), ExternalPhoto},
        ctx \in Contexts,
        auth \in AuthValues,
        token \in {NullToken, MintToken(t), MintToken(t - maxAge),
                   [enc |-> "bad", text |-> <<>>]},
        flag \in FlagValues,
        referer \in Referers(loc),
        ua \in UserAgents }

InitPolicy ==
    /\ location \in Locations
    /\ now = BaseNow
    /\ Quiet
    /\ arg \in PolicyRequests(location, now)
    /\ ret = {}

PolicyStep ==
    /\ ret = {}
    /\ ret' = {isAuthenticated(arg)}
    /\ UNCHANGED <<phase, caches, handlers, writes, now, location, arg>>

SpecPolicy == InitPolicy /\ [][PolicyStep]_vars

(* Two fetch events handled at the same time *)

\* the network may serve different content for a URL at different moments
ChangingBodies == {1, 2}

ConcurrentRequests ==
    WithHeaders(ImageA(ProdLocation), "GET", ImgContext, {PageHeaders(ProdLocation)})
    \cup WithHeaders(UrlOn(ProdLocation, <<"/", "about">>, <<>>), "GET", NavContext,
                     {PlainHeaders})
    \cup WithHeaders(UrlOn(ProdLocation, <<"/", "index.html">>, <<>>), "GET", NavContext,
                     {PlainHeaders})

InitConcurrent ==
    /\ location = ProdLocation
    /\ now = BaseNow
    /\ phase = "parsed"
    /\ caches = <<>>
    /\ handlers = <<IdleHandler, IdleHandler>>
    /\ writes = {}
    /\ arg = NoRequest
    /\ ret = {}

NextConcurrent ==
    \/ Install
    \/ InstallFail
    \/ Activate
    \/ \E s \in Slots : \E request \in ConcurrentRequests : FetchEvent(s, request)
    \/ \E s \in Slots : StaticLookup(s)
    \/ \E s \in Slots : ImageLookup(s)
    \/ \E s \in Slots : \E ver \in ChangingBodies : FetchResolve(s, 200, ver)
    \/ \E s \in Slots : FetchReject(s)
    \/ \E s \in Slots : PlaceholderLookup(s)
    \/ \E s \in Slots : OfflineLookup(s)
    \/ \E w \in writes : PutResolve(w)
    \/ \E w \in writes : PutReject(w)

SpecConcurrent == InitConcurrent /\ [][NextConcurrent]_vars

----------------------------------------------------------------------------
(* Background sync: the sync listener, syncContactForm, syncAnalyticsData *)

ContactSegment == <<"/", "api", "/", "contact">>

AnalyticsSegment == <<"/", "api", "/", "analytics">>

\* the queue a sync function drains and the URLs it re-sends
syncContactForm == [queue |-> "contact-form-cache", segment |-> ContactSegment]

syncAnalyticsData == [queue |-> "analytics-cache", segment |-> AnalyticsSegment]

SyncTags == {"background-sync-contact", "background-sync-analytics", "periodic-refresh"}

\* one record per sync event being handled (or last handled)
IdleSync ==
    [pc |-> "idle", tag |-> "", queue |-> "", segment |-> <<>>, requests |-> <<>>,
     i |-> 0, log |-> <<>>, errors |-> 0, result |-> "pending"]

\* what the application queued while offline
QueuedEntry(key) ==
    [src |-> "application", url |-> key, status |-> 200, type |-> "default",
     ctype |-> "application/json", reason |-> "", body |-> "queued", ver |-> 0]

ContactQueueURLs ==
    { href(UrlOn(ProdLocation, ContactSegment, <<"?", "id=1">>)),
      href(UrlOn(ProdLocation, ContactSegment, <<"?", "id=2">>)),
      href(UrlOn(ProdLocation, <<"/", "drafts", "/", "note">>, <<>>)) }

AnalyticsQueueURLs ==
    { href(UrlOn(ProdLocation, AnalyticsSegment, <<"?", "e=1">>)),
      href(UrlOn(ProdLocation, ContactSegment, <<"?", "id=3">>)) }

QueueCache(name, keys) == [name |-> name, store |-> [k \in keys |-> QueuedEntry(k)]]

\* cache.keys(): the requests of the cache, in the order they were put
Orderings(keys) ==
    {q \in [1..Cardinality(keys) -> keys] : \A i, j \in DOMAIN q : i # j => q[i] # q[j]}

\* cache.delete(request)
delete(cs, name, key) ==
    [i \in 1..Len(cs) |->
       IF cs[i].name = name
       THEN [cs[i] EXCEPT !.store = [k \in DOMAIN cs[i].store \ {key} |-> cs[i].store[k]]]
       ELSE cs[i]]

InitSync ==
    /\ location = ProdLocation
    /\ now = BaseNow
    /\ phase = "active"
    /\ caches \in {<<>>} \cup
          { <<QueueCache(syncContactForm.queue, c), QueueCache(syncAnalyticsData.queue, a)>>
            : c \in SUBSET ContactQueueURLs, a \in SUBSET AnalyticsQueueURLs }
    /\ handlers = <<IdleSync>>
    /\ writes = {}
    /\ arg = NoRequest
    /\ ret = {}

\* sync listener: the tag selects the function, any other tag is ignored
SyncEvent(s, tag) ==
    /\ phase = "active"
    /\ handlers[s].pc \in {"idle", "done"}
    /\ handlers' = [handlers EXCEPT ![s] =
         CASE tag = "background-sync-contact" ->
                [IdleSync EXCEPT !.pc = "open", !.tag = tag,
                                 !.queue = syncContactForm.queue,
                                 !.segment = syncContactForm.segment]
           [] tag = "background-sync-analytics" ->
                [IdleSync EXCEPT !.pc = "open", !.tag = tag,
                                 !.queue = syncAnalyticsData.queue,
                                 !.segment = syncAnalyticsData.segment]
           [] OTHER -> [IdleSync EXCEPT !.pc = "done", !.tag = tag, !.result = "ignored"]]
    /\ UNCHANGED <<phase, caches, writes, now, location, arg, ret>>

\* const cache = await caches.open(..); const requests = await cache.keys()
SyncOpen(s) ==
    /\ handlers[s].pc = "open"
    /\ caches' = open(caches, handlers[s].queue)
    /\ \E requests \in Orderings(DOMAIN Stored(caches, handlers[s].queue)) :
         handlers' = [handlers EXCEPT ![s].pc = "loop", ![s].requests = requests,
                                      ![s].i = 1]
    /\ UNCHANGED <<phase, writes, now, location, arg, ret>>

\* caches.open or cache.keys rejects: the outer catch logs it
SyncOpenFail(s) ==
    /\ handlers[s].pc = "open"
    /\ handlers' = [handlers EXCEPT ![s].pc = "done", ![s].errors = @ + 1,
                                    ![s].result = "fulfilled"]
    /\ UNCHANGED <<phase, caches, writes, now, location, arg, ret>>

\* for (const request of requests) { if (request.url.includes(..)) ..
SyncNext(s) ==
    /\ handlers[s].pc = "loop"
    /\ LET h == handlers[s] IN
       handlers' = [handlers EXCEPT ![s] =
         IF h.i > Len(h.requests) THEN [h EXCEPT !.pc = "done", !.result = "fulfilled"]
         ELSE IF Includes(h.requests[h.i], h.segment) THEN [h EXCEPT !.pc = "fetch"]
         ELSE [h EXCEPT !.i = @ + 1]]
    /\ UNCHANGED <<phase, caches, writes, now, location, arg, ret>>

\* const response = await fetch(request); if (response.ok) ..
SyncFetchResolve(s, status) ==
    /\ handlers[s].pc = "fetch"
    /\ LET h == handlers[s]
           sent == [key |-> h.requests[h.i], outcome |-> status]
       IN  handlers' = [handlers EXCEPT ![s] =
             IF status >= 200 /\ status <= 299
             THEN [h EXCEPT !.pc = "delete", !.log = Append(@, sent)]
             ELSE [h EXCEPT !.pc = "loop", !.i = @ + 1, !.log = Append(@, sent)]]
    /\ UNCHANGED <<phase, caches, writes, now, location, arg, ret>>

SyncFetchReject_leavesLoop(s) ==
    /\ handlers[s].pc = "fetch"
    /\ LET h == handlers[s]
           sent == [key |-> h.requests[h.i], outcome |-> 0]
       IN  handlers' = [handlers EXCEPT ![s] =
             [h EXCEPT !.pc = "done", !.log = Append(@, sent), !.errors = @ + 1,
                       !.result = "fulfilled"]]
    /\ UNCHANGED <<phase, caches, writes, now, location, arg, ret>>

\* fetch(request) rejects: the inner catch logs it and the loop goes on
SyncFetchReject(s) ==
    /\ handlers[s].pc = "fetch"
    /\ LET h == handlers[s]
           sent == [key |-> h.requests[h.i], outcome |-> 0]
       IN  handlers' = [handlers EXCEPT ![s] =
             [h EXCEPT !.pc = "loop", !.i = @ + 1, !.log = Append(@, sent),
                       !.errors = @ + 1]]
    /\ UNCHANGED <<phase, caches, writes, now, location, arg, ret>>

\* await cache.delete(request)
SyncDelete(s) ==
    /\ handlers[s].pc = "delete"
    /\ caches' = delete(caches, handlers[s].queue, handlers[s].requests[handlers[s].i])
    /\ handlers' = [handlers EXCEPT ![s].pc = "loop", ![s].i = @ + 1]
    /\ UNCHANGED <<phase, writes, now, location, arg, ret>>

SyncStatuses == {200, 500}

NextSync ==
    \/ \E s \in Slots : \E tag \in SyncTags : SyncEvent(s, tag)
    \/ \E s \in Slots : SyncOpen(s)
    \/ \E s \in Slots : SyncOpenFail(s)
    \/ \E s \in Slots : SyncNext(s)
    \/ \E s \in Slots : \E status \in SyncStatuses : SyncFetchResolve(s, status)
    \/ \E s \in Slots : SyncFetchReject(s)
    \/ \E s \in Slots : SyncDelete(s)

SpecSync == InitSync /\ [][NextSync]_vars

----------------------------------------------------------------------------
(* The earlier worker, src/sw.js: protection headers, no cache *)

PROTECTED_IMAGE_DOMAINS == {"images.unsplash.com", "source.unsplash.com"}

sw_ALLOWED_ORIGINS ==
    { <<"https://", "avinashbhorphotography.github.io">>,
      <<"https://", "www.abphotostudio.in">>,
      <<"http://", "localhost", ":8080">> }

PortTokens == {":8080", ":5173"}

\* new URL(url).protocol followed by //
protocol(u) == <<Head(u.origin)>>

\* new URL(url).host: the hostname and the port
host(u) == Tail(u.origin)

IsHostToken(t) == t \notin PortTokens

\* new URL(url).hostname
hostname(u) == SelectSeq(host(u), IsHostToken)

isExternalProtected(u) ==
    \E domain \in PROTECTED_IMAGE_DOMAINS : Includes(hostname(u), <<domain>>)

sw_isProtectedImage(u) == isExternalProtected(u) \/ isLocalProtected(u)

sw_isAllowedOrigin(request) ==
    LET origin == protocol(request.url) \o host(request.url)
    IN  \E allowedOrigin \in sw_ALLOWED_ORIGINS : origin = allowedOrigin

sw_isAuthenticated_tokenOptional(request) ==
    IF sw_isAllowedOrigin(request) /\ Includes(href(request.url), ImagesSegment)
    THEN request.auth = "protected" /\ request.flag = "true"
    ELSE request.flag = "true"

sw_isAuthenticated(request) ==
    IF sw_isAllowedOrigin(request) /\ Includes(href(request.url), ImagesSegment)
    THEN request.auth = "protected" /\ ~Falsy(request.token) /\ request.flag = "true"
    ELSE request.flag = "true"

\* Math.random().toString(), cut to one decimal
RandomStrings == {<<"0", ".", "1">>, <<"0", ".", "7">>}

\* btoa(Date.now().toString() + Math.random().toString())
generateSessionToken(random) == B64(NumToString(now) \o random)

\* new Request(url, {method, headers: {...request.headers, ..}, mode: 'cors', ..})
protectedRequest(request, token) ==
    [request EXCEPT !.token = token, !.flag = "true", !.referer = location.origin,
                    !.mode = "cors", !.destination = ""]

NotFoundResponse == Synthesized(404, "text/plain", "", "404 Not Found")

AccessDeniedResponse == Synthesized(403, "text/plain", "", "Image access denied")

\* new Response(response.body, {status, statusText, headers: newHeaders}):
\* body, status and content type of the fetched response
Reissued(response) == [response EXCEPT !.url = <<>>, !.type = "default"]

\* one record per fetch event the worker receives
sw_IdleHandler ==
    [pc |-> "idle", request |-> NoRequest, intercepted |-> FALSE, sent |-> NoRequest,
     response |-> undefined, policyCalls |-> 0, fetches |-> 0, failed |-> FALSE]

sw_URLs ==
    { UrlOn(ProdLocation, <<"/", "images", "/", "a.jpg">>, <<>>),
      UrlOn(ProdLocation, <<"/", "gallery", "/", "images", "/", "b.jpg">>, <<>>),
      UrlOn(ProdLocation, <<"/", "about">>, <<>>),
      [origin |-> <<"http://", "localhost", ":5173">>,
       path |-> <<"/", "images", "/", "a.jpg">>, query |-> <<>>],
      [origin |-> <<"http://", "localhost", ":8080">>,
       path |-> <<"/", "images", "/", "a.jpg">>, query |-> <<>>],
      ExternalPhoto,
      [origin |-> <<"https://", "images.unsplash.com">>,
       path |-> <<"/", "images", "/", "c.jpg">>, query |-> <<>>],
      [origin |-> <<"https://", "images.unsplash.com", ".mirror.example">>,
       path |-> <<"/", "photo.jpg">>, query |-> <<>>],
      [origin |-> <<"https://", "cdn.example">>,
       path |-> <<"/", "photo.jpg">>, query |-> <<>>] }

sw_Requests ==
    { MakeRequest(u, method, ImgContext, auth, token, flag, NoReferer, <<"Mozilla/5.0">>)
      : u \in sw_URLs, method \in Methods, auth \in AuthValues,
        token \in {NullToken, B64(<<>>), MintToken(BaseNow),
                   [enc |-> "bad", text |-> <<>>]},
        flag \in FlagValues }

sw_Init ==
    /\ location = ProdLocation
    /\ now = BaseNow
    /\ phase = "active"
    /\ caches = <<>>
    /\ handlers = <<sw_IdleHandler>>
    /\ writes = {}
    /\ arg = NoRequest
    /\ ret = {}

\* fetch listener, the synchronous part
sw_FetchEvent(s, request, random) ==
    /\ handlers[s].pc \in {"idle", "done"}
    /\ LET h == [sw_IdleHandler EXCEPT !.request = request] IN
       handlers' = [handlers EXCEPT ![s] =
         IF request.method # "GET" \/ ~sw_isProtectedImage(request.url)
         THEN [h EXCEPT !.pc = "done"]
         ELSE IF sw_isAllowedOrigin(request)
                 /\ Includes(href(request.url), ImagesSegment)
         THEN IF ~sw_isAuthenticated(request)
              THEN [h EXCEPT !.pc = "done", !.intercepted = TRUE, !.policyCalls = 1,
                             !.response = NotFoundResponse]
              ELSE [h EXCEPT !.pc = "fetch", !.intercepted = TRUE, !.policyCalls = 1,
                             !.fetches = 1,
                             !.sent = protectedRequest(request,
                                                       generateSessionToken(random))]
         ELSE [h EXCEPT !.pc = "fetch", !.intercepted = TRUE, !.fetches = 1,
                        !.sent = protectedRequest(request, generateSessionToken(random))]]
    /\ UNCHANGED <<phase, caches, writes, now, location, arg, ret>>

\* await fetch(protectedRequest) resolves; the response is reissued with the
\* security headers
sw_FetchResolve(s, status, ver) ==
    /\ handlers[s].pc = "fetch"
    /\ handlers' = [handlers EXCEPT
         ![s].pc = "done",
         ![s].response = Reissued(NetResponse(handlers[s].sent, status, ver))]
    /\ UNCHANGED <<phase, caches, writes, now, location, arg, ret>>

\* await fetch(protectedRequest) rejects: the catch answers 403
sw_FetchReject(s) ==
    /\ handlers[s].pc = "fetch"
    /\ handlers' = [handlers EXCEPT ![s].pc = "done", ![s].failed = TRUE,
                                    ![s].response = AccessDeniedResponse]
    /\ UNCHANGED <<phase, caches, writes, now, location, arg, ret>>

sw_Next ==
    \/ \E s \in Slots : \E request \in sw_Requests : \E random \in RandomStrings :
          sw_FetchEvent(s, request, random)
    \/ \E s \in Slots : \E status \in NetStatuses : \E ver \in Bodies :
          sw_FetchResolve(s, status, ver)
    \/ \E s \in Slots : sw_FetchReject(s)

sw_Spec == sw_Init /\ [][sw_Next]_vars

----------------------------------------------------------------------------
(* Claims *)

Done(s) == handlers[s].pc = "done"

ImageDone(s) == Done(s) /\ handlers[s].class = "ProtectedImage"

\* C1: when the cache lookup of a ProtectedImage request hits, the handler
\* answers at once with exactly the entry the cache holds: isAuthenticated is
\* not called, no fetch is issued, and neither the caches nor the pending
\* writes change, so the same request repeated gets the same entry again.
C1_CacheHitBypassesPolicy ==
    [][\A s \in Slots :
         LET h == handlers[s]
             cached == match(caches, h.request)
         IN  (h.pc = "match" /\ h.class = "ProtectedImage" /\ cached # undefined
              /\ handlers'[s] # h)
             => /\ handlers'[s].pc = "done"
                /\ handlers'[s].response = cached
                /\ handlers'[s].policyCalls = 0
                /\ handlers'[s].fetches = 0
                /\ handlers'[s].puts = 0
                /\ caches' = caches
                /\ writes' = writes]_vars

\* a request that would be denied on a miss is served its cached entry
C1_Witness ==
    \E s \in Slots :
        /\ ImageDone(s)
        /\ handlers[s].hit # undefined
        /\ handlers[s].response = handlers[s].hit
        /\ handlers[s].response.src = "network"
        /\ handlers[s].request.ua = <<"curl", "/8.4.0">>
        /\ handlers[s].policyCalls = 0
        /\ ~isLocalhost

IsDenial(r) == r.src = "worker" /\ r.status = 403

\* C2: a top-level navigation (mode "navigate") to a URL under /images/ that
\* the image branch handles is always answered with a denial, never with
\* image content, whatever was requested before.
C2_NavigationAlwaysDenied ==
    \A s \in Slots :
        (ImageDone(s)
         /\ handlers[s].request.mode = "navigate"
         /\ isLocalProtected(handlers[s].request.url))
        => IsDenial(handlers[s].response)

\* C3: on a host that is not a local-development host, isAuthenticated
\* denies every request whose user agent contains a bot signature, whatever
\* its destination, referer, auth marker, token and protected flag are.
C3_BotAlwaysDenied ==
    (/\ ret # {}
     /\ location.hostname \notin {<<"localhost">>, <<"127.0.0.1">>}
     /\ \A i \in 1..Len(location.hostname) : location.hostname[i] # "localhost"
     /\ \E i \in 1..Len(arg.ua) : arg.ua[i] \in BotSignatures)
    => ret = {FALSE}

\* a curl request that satisfies both allow paths is denied
C3_Witness ==
    /\ ret = {FALSE}
    /\ location = ProdLocation
    /\ arg.ua = <<"curl", "/8.4.0">>
    /\ arg.url = ImageA(location)
    /\ arg.destination = "image"
    /\ arg.referer = location.origin \o <<"/", "gallery">>
    /\ arg.auth = "protected"
    /\ arg.token = MintToken(now)
    /\ arg.flag = "true"

RECURSIVE DecimalValue(_)
DecimalValue(d) ==
    IF d = <<>> THEN 0
    ELSE 10 * DecimalValue(SubSeq(d, 1, Len(d) - 1)) + DigitVal[d[Len(d)]]

FirstField(text) ==
    IF \E i \in 1..Len(text) : text[i] = "-"
    THEN SubSeq(text, 1, (CHOOSE i \in 1..Len(text) :
                            text[i] = "-" /\ \A j \in 1..(i - 1) : text[j] # "-") - 1)
    ELSE text

HasTwoFields(text) == \E i \in 1..Len(text) : text[i] = "-"

AllDigits(f) == f # <<>> /\ \A i \in 1..Len(f) : IsDigit(f[i])

InWindow(ts) == now - maxAge < ts /\ ts <= now + ClockSkew

\* C4 as stated: validateToken returns true iff the token is present,
\* decodes, has at least 2 dash-separated fields, its first field is a
\* numeric timestamp ts, and ts lies in the window (lower bound strict,
\* upper bound inclusive); false in every other case.
C4_ValidIffNumericInWindow ==
    ret # {} =>
        (ret = {TRUE} <=>
            /\ arg.enc = "b64"
            /\ arg.text # <<>>
            /\ HasTwoFields(arg.text)
            /\ AllDigits(FirstField(arg.text))
            /\ InWindow(DecimalValue(FirstField(arg.text))))

\* the number parseInt reads from a field without "-": blanks skipped, an
\* optional "+", then the longest run of digits (none: no number)
Unsigned(f) ==
    LET blanks == CHOOSE k \in 0..Len(f) :
                     /\ \A i \in 1..k : f[i] = " "
                     /\ (k = Len(f) \/ f[k + 1] # " ")
        t == SubSeq(f, blanks + 1, Len(f))
    IN  IF t # <<>> /\ t[1] = "+" THEN SubSeq(t, 2, Len(t)) ELSE t

LeadingDigits(f) ==
    LET t == Unsigned(f)
        k == CHOOSE n \in 0..Len(t) :
                /\ \A i \in 1..n : IsDigit(t[i])
                /\ (n = Len(t) \/ ~IsDigit(t[n + 1]))
    IN  SubSeq(t, 1, k)

\* C4 (amended): validateToken returns true iff the token is present,
\* decodes, has at least 2 dash-separated fields, its first field begins
\* (after blanks and an optional +) with a run of digits, and the number ts
\* that run denotes satisfies now - maxAge < ts <= now + skew; it returns
\* false in every other case and never raises.
C4_ValidIffParsedInWindow ==
    ret # {} =>
        /\ ret \in {{TRUE}, {FALSE}}
        /\ ret = {TRUE} <=>
            /\ arg.enc = "b64"
            /\ arg.text # <<>>
            /\ HasTwoFields(arg.text)
            /\ LeadingDigits(FirstField(arg.text)) # <<>>
            /\ InWindow(DecimalValue(LeadingDigits(FirstField(arg.text))))

\* accepted: digits followed by a letter, at the inclusive upper bound
C4_Witness ==
    /\ ret = {TRUE}
    /\ arg = B64(NumToString(now + ClockSkew) \o <<"a", "-", "n">>)

MatchesManifest(u) ==
    \E asset \in STATIC_ASSETS :
        /\ Len(asset) <= Len(href(u))
        /\ \A i \in 1..Len(asset) : href(u)[Len(href(u)) - Len(asset) + i] = asset[i]

PathBeginsWith(u, prefix) ==
    /\ Len(prefix) <= Len(u.path)
    /\ \A i \in 1..Len(prefix) : u.path[i] = prefix[i]

Contains(str, part) ==
    \E k \in 1..Len(str) :
        /\ k + Len(part) - 1 <= Len(str)
        /\ \A i \in 1..Len(part) : str[k + i - 1] = part[i]

\* C5 as stated: first match of StaticAsset (URL matches a manifest entry),
\* ProtectedImage (kind 'image' or the URL path begins with /images/),
\* Dynamic (the URL path begins with /api/ or the method is not GET), Generic.
C5_FirstMatchByPathPrefix ==
    ret # {} =>
        ret = { IF MatchesManifest(arg.url) THEN "StaticAsset"
                ELSE IF arg.destination = "image" \/ PathBeginsWith(arg.url, ImagesSegment)
                THEN "ProtectedImage"
                ELSE IF PathBeginsWith(arg.url, ApiSegment) \/ arg.method # "GET"
                THEN "Dynamic"
                ELSE "Generic" }

\* C5 (amended): first match of StaticAsset (the URL ends with a manifest
\* entry), ProtectedImage (kind 'image' or the URL contains /images/ anywhere,
\* query included), Dynamic (the URL contains /api/ anywhere or the method is
\* not GET), Generic.
C5_FirstMatchBySubstring ==
    ret # {} =>
        ret = { IF MatchesManifest(arg.url) THEN "StaticAsset"
                ELSE IF arg.destination = "image" \/ Contains(href(arg.url), ImagesSegment)
                THEN "ProtectedImage"
                ELSE IF Contains(href(arg.url), ApiSegment) \/ arg.method # "GET"
                THEN "Dynamic"
                ELSE "Generic" }

\* a URL under /images/ that ends with a manifest entry is a StaticAsset, and
\* was requested as an image
C5_Witness ==
    /\ ret = {"StaticAsset"}
    /\ arg.url = UrlOn(ProdLocation, <<"/", "images", "/", "index.html">>, <<>>)
    /\ arg.destination = "image"

\* C6: whatever the class of the request and the outcome of the cache lookup
\* and of the fetch, the handling ends with a Response delivered to the
\* caller, never with a fault.
C6_EveryHandlingEndsInResponse ==
    \A s \in Slots : Done(s) => IsResponse(handlers[s].response)

\* the image branch went through its catch handler
ImageFetchFailed(s) ==
    ImageDone(s) /\ handlers[s].fetches = 1 /\ handlers[s].lookups = 2

\* C7: when an allowed ProtectedImage request misses the cache and its fetch
\* fails, the caller receives the cached placeholder image or else a 404
\* response with an empty body, never a fault or a missing response.
C7_PlaceholderOr404 ==
    \A s \in Slots :
        ImageFetchFailed(s) =>
            \/ handlers[s].response = ImageNotFoundResponse
            \/ /\ handlers[s].response.src = "network"
               /\ handlers[s].response.url = href(PlaceholderRequest.url)

ClaimedDirectNavigation(request) ==
    request.mode = "navigate" \/ (request.flag = "null" /\ request.destination = "")

\* C9: a ProtectedImage request that misses the cache and is a top-level
\* navigation, or has no protected-flag header and an empty destination, gets
\* the fixed 403 text/html response with X-Protection-Reason "Direct
\* navigation blocked"; isAuthenticated is not called, nothing is fetched and
\* no cache write is issued.
C9_DirectNavigationBlocked ==
    \A s \in Slots :
        LET h == handlers[s] IN
        (h.class = "ProtectedImage" /\ h.pc \notin {"idle", "match"}
         /\ h.hit = undefined /\ ClaimedDirectNavigation(h.request))
        => /\ h.pc = "done"
           /\ h.response.status = 403
           /\ h.response.ctype = "text/html"
           /\ h.response.reason = "Direct navigation blocked"
           /\ h.response.src = "worker"
           /\ h.policyCalls = 0
           /\ h.fetches = 0
           /\ h.puts = 0

\* a fetch() without the protected flag, not a navigation, is answered so
C9_Witness ==
    \E s \in Slots :
        /\ ImageDone(s)
        /\ handlers[s].hit = undefined
        /\ handlers[s].request.mode = "cors"
        /\ handlers[s].request.flag = "null"
        /\ handlers[s].request.destination = ""
        /\ handlers[s].response = DirectNavigationResponse

\* C10: every step of handling a Dynamic request leaves all caches and the
\* pending cache writes unchanged; the handling issues exactly one fetch and
\* no cache lookup, and ends with the network response or, when the fetch
\* fails, with the 503 JSON response {"error":"Network unavailable"}.
C10_DynamicNetworkOnly ==
    [][\A s \in Slots :
         LET h == handlers'[s] IN
         (h # handlers[s] /\ h.class = "Dynamic")
         => /\ caches' = caches
            /\ writes' = writes
            /\ h.lookups = 0
            /\ h.fetches = 1
            /\ h.puts = 0
            /\ h.pc \in {"fetch", "done"}
            /\ (h.pc = "done" =>
                  \/ h.response.src = "network" /\ h.response.url = href(h.request.url)
                  \/ /\ h.response.status = 503
                     /\ h.response.ctype = "application/json"
                     /\ h.response.body = "{\"error\":\"Network unavailable\"}")]_vars

\* a POST to /api/contact whose fetch failed
C10_Witness ==
    \E s \in Slots :
        /\ Done(s)
        /\ handlers[s].class = "Dynamic"
        /\ handlers[s].request.method = "POST"
        /\ handlers[s].request.url.path = <<"/", "api", "/", "contact">>
        /\ handlers[s].response = NetworkUnavailableResponse
        /\ handlers[s].fetches = 1

LocalDevelopmentHost ==
    \E i \in 1..Len(location.hostname) : location.hostname[i] \in {"localhost", "127.0.0.1"}

MatchesBotSignature(ua) == \E i \in 1..Len(ua) : ua[i] \in BotSignatures

BeginsWith(str, prefix) ==
    /\ Len(prefix) <= Len(str)
    /\ \A i \in 1..Len(prefix) : str[i] = prefix[i]

ExplicitAuth(request) ==
    /\ request.auth = "protected"
    /\ request.token.enc # "null"
    /\ validateToken(request.token)
    /\ request.flag = "true"

RefererExactOrigin(request) ==
    /\ request.referer # <<>>
    /\ \/ BeginsWith(request.referer, location.origin)
       \/ Contains(request.referer, <<"localhost">>)
       \/ request.referer \in ALLOWED_ORIGINS

RefererOriginPrefix(request) ==
    /\ request.referer # <<>>
    /\ \/ BeginsWith(request.referer, location.origin)
       \/ Contains(request.referer, <<"localhost">>)
       \/ \E origin \in ALLOWED_ORIGINS : BeginsWith(request.referer, origin)

\* C11 as stated: for a ProtectedImage request the decision is Allow on a
\* local-development host; otherwise Allow iff the user agent matches no bot
\* signature and (kind 'image' and hasValidReferer, or the explicit-auth
\* headers and hasValidReferer), hasValidReferer being: referer present and
\* starting with the serving origin, containing 'localhost', or exactly equal
\* to an allowed origin; Deny for every other ProtectedImage request.
C11_DecisionExactOrigin ==
    (ret # {} /\ classify(arg) = "ProtectedImage") =>
        ret = { \/ LocalDevelopmentHost
                \/ /\ ~MatchesBotSignature(arg.ua)
                   /\ RefererExactOrigin(arg)
                   /\ (arg.destination = "image" \/ ExplicitAuth(arg)) }

\* C11 (amended): Allow on a local-development host; otherwise Deny when the
\* user agent matches a bot signature; otherwise Allow when the URL does not
\* contain /images/; otherwise Allow iff hasValidReferer and (kind 'image' or
\* the explicit-auth headers), hasValidReferer being: referer present and
\* starting with the serving origin, containing 'localhost', or starting with
\* an allowed origin.
C11_DecisionOriginPrefix ==
    (ret # {} /\ classify(arg) = "ProtectedImage") =>
        ret = { \/ LocalDevelopmentHost
                \/ /\ ~MatchesBotSignature(arg.ua)
                   /\ \/ ~Contains(href(arg.url), ImagesSegment)
                      \/ /\ RefererOriginPrefix(arg)
                         /\ (arg.destination = "image" \/ ExplicitAuth(arg)) }

\* the application's credentialed fetch from a page of the sister site, whose
\* referer begins with an allowed origin without being equal to it
C11_Witness ==
    /\ ret = {TRUE}
    /\ location = ProdLocation
    /\ classify(arg) = "ProtectedImage"
    /\ arg.url = ImageA(location)
    /\ arg.destination = ""
    /\ arg.auth = "protected"
    /\ arg.token = MintToken(now)
    /\ arg.flag = "true"
    /\ arg.referer = <<"https://", "avinashbhorphotography.github.io", "/", "me", "/">>
    /\ arg.ua = <<"Mozilla/5.0">>

GenericStep(h, g) == g # h /\ g.class = "Generic"

\* C12: a Generic handling goes to the network first; a response that is ok
\* and of type 'basic' is put into the catch-all tier and returned, any other
\* response is returned without a put; when the fetch fails the handler
\* returns the catch-all tier's entry for the request if there is one and
\* the 503 text/plain response otherwise.
C12_GenericNetworkFirst ==
    [][\A s \in Slots :
         LET h == handlers[s]
             g == handlers'[s]
             key == href(g.request.url)
             tier == Stored(caches, CACHE_NAME)
         IN  GenericStep(h, g) =>
               /\ g.fetches = 1
               /\ (g.pc = "fetch" => g.lookups = 0)
               /\ (h.pc = "fetch" /\ g.pc = "done") =>
                     /\ g.response.src = "network"
                     /\ g.response.url = key
                     /\ writes' = writes \cup
                          IF g.response.status \in 200..299 /\ g.response.type = "basic"
                          THEN {[cache |-> CACHE_NAME, method |-> g.request.method,
                                 key |-> key, response |-> g.response]}
                          ELSE {}
               /\ (h.pc = "fallback" /\ g.pc = "done") =>
                     g.response = IF key \in DOMAIN tier THEN tier[key]
                                  ELSE OfflineResponse]_vars

C14_WritesDetached ==
    [][/\ \A w \in writes' \ writes :
            \E s \in Slots :
                /\ handlers[s].pc = "fetch"
                /\ handlers'[s].pc = "done"
                /\ handlers'[s].response = w.response
                /\ IsResponse(handlers'[s].response)
       /\ \A w \in writes \ writes' :
            /\ handlers' = handlers
            /\ writes' = writes \ {w}
            /\ \/ caches' = put(caches, w.cache, w.key, w.response)
               \/ caches' = open(caches, w.cache)]_vars

\* the put of a POST request was rejected after the response was delivered:
\* the handler still holds the fetched response, nothing is pending or stored
C14_Witness ==
    \E s \in Slots :
        /\ Done(s)
        /\ handlers[s].request.method = "POST"
        /\ handlers[s].puts = 1
        /\ handlers[s].response.src = "network"
        /\ handlers[s].response.status = 200
        /\ writes = {}
        /\ HasCache(caches, IMAGES_CACHE)
        /\ href(handlers[s].request.url) \notin DOMAIN Stored(caches, IMAGES_CACHE)

\* C15: in a ProtectedImage handling a fetch is issued only after
\* isAuthenticated was called in that handling and returned true; when it
\* returns false the handling ends with the fixed 403 text/plain response
\* carrying an X-Protection-Reason, with no fetch and no cache write issued.
C15_FetchOnlyAfterAllow ==
    \A s \in Slots :
        LET h == handlers[s] IN
        h.class = "ProtectedImage" =>
            /\ h.fetches > 0 => (h.policyCalls = 1 /\ isAuthenticated(h.request))
            /\ (h.policyCalls = 1 /\ ~isAuthenticated(h.request)) =>
                  /\ h.pc = "done"
                  /\ h.response.src = "worker"
                  /\ h.response.status = 403
                  /\ h.response.ctype = "text/plain"
                  /\ h.response.reason # ""
                  /\ h.fetches = 0
                  /\ h.puts = 0
                  /\ h.lookups = 1

\* an <img> request without referer from an ordinary browser is denied
C15_Witness ==
    \E s \in Slots :
        /\ ImageDone(s)
        /\ handlers[s].policyCalls = 1
        /\ handlers[s].request.destination = "image"
        /\ handlers[s].request.referer = NoReferer
        /\ handlers[s].request.ua = <<"Mozilla/5.0">>
        /\ handlers[s].response = UnauthorizedResponse
        /\ handlers[s].fetches = 0

\* the tier the spec assigns to a request class
TierOf(class) ==
    CASE class = "StaticAsset" -> STATIC_CACHE
      [] class = "ProtectedImage" -> IMAGES_CACHE
      [] class = "Generic" -> CACHE_NAME
      [] OTHER -> "none"

KeyMatchesManifest(key) ==
    \E asset \in STATIC_ASSETS :
        /\ Len(asset) <= Len(key)
        /\ \A i \in 1..Len(asset) : key[Len(key) - Len(asset) + i] = asset[i]

\* C16: every cache write a strategy issues goes to the tier of the class of
\* the request handled (Static tier: StaticAsset, Image tier: ProtectedImage,
\* catch-all tier: Generic), so that the Static tier only ever holds manifest
\* URLs, and the entry an offline fallback returns comes from the tier of the
\* request's own class.
C16_TierMembershipByClass ==
    [][/\ \A w \in writes' \ writes :
            \E s \in Slots :
                /\ handlers[s].pc = "fetch"
                /\ handlers'[s].response = w.response
                /\ w.cache = TierOf(handlers[s].class)
       /\ \A k \in DOMAIN Stored(caches', STATIC_CACHE) : KeyMatchesManifest(k)
       /\ \A s \in Slots :
            LET h == handlers[s]
                g == handlers'[s]
                tier == Stored(caches, TierOf(h.class))
            IN  (h.pc = "fallback" /\ g.pc = "done" /\ g.response.src = "network") =>
                  /\ href(h.request.url) \in DOMAIN tier
                  /\ g.response = tier[href(h.request.url)]]_vars

\* the tier after a write of w completed: the entry of w.key is w.response,
\* every other entry is as before
Overwritten(before, after, w) ==
    /\ DOMAIN after = DOMAIN before \cup {w.key}
    /\ after[w.key] = w.response
    /\ \A k \in DOMAIN before \ {w.key} : after[k] = before[k]

\* C17: with two handlings under way, a handler whose fetch resolves ends
\* with the response of its own fetch and leaves the other handler as it is;
\* a handler that has ended keeps its response through every step of the
\* other and every write; each write that completes replaces the tier's
\* entry for its request, so the entry is that of the write completed last.
C17_IndependentHandlersLastWriteWins ==
    [][/\ \A s \in Slots :
            (handlers[s].pc = "done" /\ handlers'[s].pc = "done")
            => handlers'[s] = handlers[s]
       /\ \A s \in Slots :
            (handlers[s].pc = "fetch" /\ handlers'[s].pc = "done")
            => /\ handlers'[s].response.src = "network"
               /\ handlers'[s].response.url = href(handlers[s].request.url)
               /\ \A t \in Slots \ {s} : handlers'[t] = handlers[t]
               /\ caches' = caches
       /\ \A w \in writes \ writes' :
            \/ caches' = open(caches, w.cache)
            \/ /\ Overwritten(Stored(caches, w.cache), Stored(caches', w.cache), w)
               /\ \A name \in {STATIC_CACHE, IMAGES_CACHE, CACHE_NAME} \ {w.cache} :
                    Stored(caches', name) = Stored(caches, name)]_vars

\* both handlers missed the cache for the same image, both fetched, each
\* ended with its own response, and the tier holds the one written last
C17_Witness ==
    /\ Len(handlers) = 2
    /\ \A s \in Slots :
          /\ ImageDone(s)
          /\ handlers[s].hit = undefined
          /\ handlers[s].fetches = 1
          /\ handlers[s].puts = 1
    /\ handlers[1].request = handlers[2].request
    /\ handlers[1].response.ver = 1
    /\ handlers[2].response.ver = 2
    /\ writes = {}
    /\ Stored(caches, IMAGES_CACHE)[href(handlers[1].request.url)] = handlers[1].response

CurrentTiers == {CACHE_NAME, STATIC_CACHE, IMAGES_CACHE}

CacheNames(cs) == {cs[i].name : i \in 1..Len(cs)}

\* C18: no step removes an entry from one of the three current tiers, or
\* removes such a tier; a cache with any other name disappears only in the
\* activation step, which removes every such cache and leaves the three
\* current tiers and their entries as they were.
C18_EntriesOnlyDestroyedByActivation ==
    [][/\ \A name \in CacheNames(caches) \cap CurrentTiers :
            /\ name \in CacheNames(caches')
            /\ DOMAIN Stored(caches, name) \subseteq DOMAIN Stored(caches', name)
       /\ IF phase = "installed" /\ phase' = "active"
          THEN /\ CacheNames(caches') = CacheNames(caches) \cap CurrentTiers
               /\ \A name \in CurrentTiers : Stored(caches', name) = Stored(caches, name)
          ELSE \A name \in CacheNames(caches) :
                 /\ name \in CacheNames(caches')
                 /\ DOMAIN Stored(caches, name) \subseteq DOMAIN Stored(caches', name)]_vars

\* after activation and several requests: the previous generation is gone,
\* the manifest is still in the Static tier, and an image stored by one
\* handling has been served to a later one
C18_Witness ==
    /\ phase = "active"
    /\ CacheNames(caches) = {STATIC_CACHE, IMAGES_CACHE}
    /\ \A asset \in STATIC_ASSETS :
          href(SiteURL(asset)) \in DOMAIN Stored(caches, STATIC_CACHE)
    /\ \E s \in Slots :
          /\ ImageDone(s)
          /\ handlers[s].hit # undefined
          /\ Stored(caches, IMAGES_CACHE)[href(handlers[s].request.url)] = handlers[s].hit

FromNetwork(r) == r.src = "network" /\ r.status \in NetStatuses

SynthesizedResponses ==
    {DirectNavigationResponse, UnauthorizedResponse, ImageNotFoundResponse,
     NetworkUnavailableResponse, OfflineResponse}

\* C19: every entry of every cache, and every response of a pending cache
\* write, is a response the network fetcher produced; none of the responses
\* the worker synthesizes (403 navigation page, 403 denial, 404 image
\* failure, 503 Dynamic error, 503 Generic offline) is ever stored or written.
C19_OnlyNetworkResponsesCached ==
    /\ \A w \in writes :
          FromNetwork(w.response) /\ w.response \notin SynthesizedResponses
    /\ \A i \in 1..Len(caches) : \A k \in DOMAIN caches[i].store :
          /\ FromNetwork(caches[i].store[k])
          /\ caches[i].store[k] \notin SynthesizedResponses
          /\ caches[i].store[k].url = k

\* a Generic handling has ended with the synthesized 503 offline response
\* while images are stored: nothing is stored or pending for its request
C19_Witness ==
    \E s \in Slots :
        /\ Done(s)
        /\ handlers[s].class = "Generic"
        /\ handlers[s].response = OfflineResponse
        /\ match(caches, handlers[s].request) = undefined
        /\ \A w \in writes : w.key # href(handlers[s].request.url)
        /\ Stored(caches, IMAGES_CACHE) # EmptyStore

\* how often the sync function sent the queued request key
TimesSent(h, key) == Cardinality({n \in 1..Len(h.log) : h.log[n].key = key})

SentWithSuccess(h, key) ==
    \E n \in 1..Len(h.log) : h.log[n].key = key /\ h.log[n].outcome \in 200..299

InApiPath(h, key) ==
    IF h.tag = "background-sync-contact" THEN Contains(key, <<"/", "api", "/", "contact">>)
    ELSE Contains(key, <<"/", "api", "/", "analytics">>)

\* C20: when syncContactForm or syncAnalyticsData has run over its queue,
\* every queued request whose URL is in its API path was sent exactly once
\* and every other one not at all; a request is gone from the queue iff its
\* re-send returned a success status, and is still queued when the re-send
\* returned another status or failed; failures stop neither the remaining
\* entries nor the function, which always ends fulfilled.
C20_SyncResendsOnceRemovesOnSuccess ==
    \A s \in Slots :
        LET h == handlers[s]
            queue == Stored(caches, h.queue)
        IN  /\ h.pc = "done" => h.result \in {"fulfilled", "ignored"}
            /\ (h.pc = "done" /\ h.result = "fulfilled" /\ h.i > 0) =>
                  \A n \in 1..Len(h.requests) :
                     LET key == h.requests[n] IN
                     /\ TimesSent(h, key) = IF InApiPath(h, key) THEN 1 ELSE 0
                     /\ key \notin DOMAIN queue <=> SentWithSuccess(h, key)
            /\ h.pc = "done" => \A n \in 1..Len(h.log) : InApiPath(h, h.log[n].key)

\* contact sync over three queued requests: the first re-send failed, the
\* second succeeded and was removed, the request outside the API path and the
\* failed one are still queued
C20_Witness ==
    \E s \in Slots :
        LET h == handlers[s] IN
        /\ h.pc = "done"
        /\ h.tag = "background-sync-contact"
        /\ Len(h.requests) = 3
        /\ Len(h.log) = 2
        /\ h.log[1].outcome = 0
        /\ h.log[2].outcome = 200
        /\ h.errors = 1
        /\ DOMAIN Stored(caches, h.queue) = ContactQueueURLs \ {h.log[2].key}

ClaimedProtectedImage(u) ==
    \/ \E n \in 2..Len(u.origin) : u.origin[n] \in PROTECTED_IMAGE_DOMAINS
    \/ BeginsWith(u.path, <<"/", "images", "/">>)

CarriesCredentials(request) ==
    /\ request.auth = "protected"
    /\ request.token.enc # "null"
    /\ ~(request.token.enc = "b64" /\ request.token.text = <<>>)
    /\ request.flag = "true"

\* C21: the earlier worker answers a request itself iff it is a GET for a
\* protected image. Such a request on an allowed origin with /images/ in its
\* URL that lacks X-Image-Auth 'protected', a non-empty X-Session-Token or
\* X-Protected-Image 'true' is answered 404 without a fetch; every other
\* intercepted request is fetched exactly once and ends with the response
\* fetched or, when the fetch failed, with the 403 text/plain response, never
\* with a fault.
C21_LegacyGate ==
    \A s \in Slots :
        LET h == handlers[s]
            gated == /\ h.request.url.origin \in sw_ALLOWED_ORIGINS
                     /\ Contains(href(h.request.url), <<"/", "images", "/">>)
                     /\ ~CarriesCredentials(h.request)
        IN  h.pc # "idle" =>
              /\ h.intercepted <=>
                    (h.request.method = "GET" /\ ClaimedProtectedImage(h.request.url))
              /\ ~h.intercepted => (h.fetches = 0 /\ h.response = undefined)
              /\ (h.intercepted /\ gated) =>
                    /\ h.pc = "done"
                    /\ h.fetches = 0
                    /\ h.response.src = "worker"
                    /\ h.response.status = 404
              /\ (h.intercepted /\ ~gated) =>
                    /\ h.fetches = 1
                    /\ h.sent.url = h.request.url
                    /\ h.pc = "done" =>
                          IF h.failed
                          THEN /\ h.response.src = "worker"
                               /\ h.response.status = 403
                               /\ h.response.ctype = "text/plain"
                          ELSE /\ h.response.src = "network"
                               /\ h.response.status \in NetStatuses

\* a local image request with the auth marker and the flag but an empty
\* session token is answered 404 and nothing is fetched
C21_Witness ==
    \E s \in Slots :
        LET h == handlers[s] IN
        /\ h.pc = "done"
        /\ h.intercepted
        /\ h.request.url = ImageA(ProdLocation)
        /\ h.request.auth = "protected"
        /\ h.request.flag = "true"
        /\ h.request.token = B64(<<>>)
        /\ h.response = NotFoundResponse
        /\ h.fetches = 0

====
